---- MODULE Spec2Model ----
(***************************************************************************)
(* A model of the remark plugin in src/unnamed/part_000 (remarkGithub):    *)
(* the Text Scanner (findAndReplace with the reference and the mention     *)
(* pattern) and the Existing-Link Normalizer (visit of the link nodes).    *)
(*                                                                         *)
(* Strings are sequences of characters; a character is a one-character     *)
(* TLA+ string (the backtick, which a TLA+ string cannot hold, is the      *)
(* string "backtick").  Positions are those of JavaScript: 0-based, and a  *)
(* slice [a, b) excludes b.                                                *)
(***************************************************************************)
EXTENDS Integers, Sequences, FiniteSets, TLC

VARIABLES input, options, tree, prev, ops, calls, raised

vars == <<input, options, tree, prev, ops, calls, raised>>

----------------------------------------------------------------------------
(* Characters and character classes of the regular expressions.            *)

Backtick == "backtick"

Digit == {"0", "1", "2", "3", "4", "5", "6", "7", "8", "9"}

LowerSeq ==
  <<"a", "b", "c", "d", "e", "f", "g", "h", "i", "j", "k", "l", "m",
    "n", "o", "p", "q", "r", "s", "t", "u", "v", "w", "x", "y", "z">>

UpperSeq ==
  <<"A", "B", "C", "D", "E", "F", "G", "H", "I", "J", "K", "L", "M",
    "N", "O", "P", "Q", "R", "S", "T", "U", "V", "W", "X", "Y", "Z">>

LowerLetter == {LowerSeq[i] : i \in 1..26}

UpperLetter == {UpperSeq[i] : i \in 1..26}

\* The "i" flag: two characters match when their lower-case forms agree.
ToLower(c) ==
  IF c \in UpperLetter
    THEN LowerSeq[CHOOSE i \in 1..26 : UpperSeq[i] = c]
    ELSE c

\* \w
Word == Digit \cup LowerLetter \cup UpperLetter \cup {"_"}

\* [\da-z] under the "i" flag
AlnumI == Digit \cup LowerLetter \cup UpperLetter

\* [a-f\d] without the "i" flag
Hex == Digit \cup {"a", "b", "c", "d", "e", "f"}

\* [a-f\d] under the "i" flag
HexI == Hex \cup {"A", "B", "C", "D", "E", "F"}

\* String.prototype.charAt: the empty string outside the string.
CharAt(s, i) == IF i >= 0 /\ i < Len(s) THEN s[i + 1] ELSE ""

\* String.prototype.slice(a, b) for 0 <= a, b.
Slice(s, a, b) == SubSeq(s, a + 1, IF b > Len(s) THEN Len(s) ELSE b)

\* The end of the longest run of characters of class cls from position i,
\* at most max characters long.
RECURSIVE RunEnd(_, _, _, _)
RunEnd(s, i, cls, max) ==
  IF max > 0 /\ CharAt(s, i) \in cls
    THEN RunEnd(s, i + 1, cls, max - 1)
    ELSE i

\* s holds the literal lit at position i, compared under the "i" flag.
HasAtI(s, i, lit) ==
  /\ i + Len(lit) <= Len(s)
  /\ \A k \in 1..Len(lit) : ToLower(s[i + k]) = ToLower(lit[k])

----------------------------------------------------------------------------
(* Constants of the source.                                                *)

minShaLength == 7

\* userGroup: one [\da-z], then at most this many of [-\da-z]
userTailMax == 38

\* [a-f\d]{7,40} of referenceRegex, {4,40} of parse
maxShaLength == 40

minLinkShaLength == 4

maxProjectLength == 100

denyMention == {<<"m", "e", "n", "t", "i", "o", "n">>,
                <<"m", "e", "n", "t", "i", "o", "n", "s">>}

----------------------------------------------------------------------------
(* The pattern library.                                                    *)

\* userGroup at position i: the end of the match, i when there is none.
\* What follows userGroup in all three patterns is no character of
\* [-\da-z], so only the longest run can lead to a match.
UserEnd(s, i) ==
  IF CharAt(s, i) \in AlnumI
    THEN RunEnd(s, i + 1, AlnumI \cup {"-"}, userTailMax)
    ELSE i

\* projectGroup at position i: (?:\.git[\w-]|\.(?!git)|[\w-])+ taken
\* greedily; the end of the match, i when there is none.
RECURSIVE ProjectEnd(_, _)
ProjectEnd(s, i) ==
  LET c == CharAt(s, i) IN
  IF c = "."
    THEN IF HasAtI(s, i + 1, <<"g", "i", "t">>)
           THEN IF CharAt(s, i + 4) \in Word \cup {"-"}
                  THEN ProjectEnd(s, i + 5)
                  ELSE i
           ELSE ProjectEnd(s, i + 1)
    ELSE IF c \in Word \cup {"-"}
           THEN ProjectEnd(s, i + 1)
           ELSE i

NoMatch == [ok |-> FALSE]

\* referenceRegex anchored at position i.
ReferenceAt(s, i) ==
  LET e1 == UserEnd(s, i)
      withProject == CharAt(s, e1) = "/"
      e2 == IF withProject THEN ProjectEnd(s, e1 + 1) ELSE e1
      c == CharAt(s, e2)
      noEnd == RunEnd(s, e2 + 2, Digit, Len(s))
      hashEnd == RunEnd(s, e2 + 1, HexI, maxShaLength)
      base == [ok |-> TRUE, index |-> i,
               user |-> Slice(s, i, e1),
               project |-> IF withProject THEN Slice(s, e1 + 1, e2) ELSE <<>>]
  IN
  IF e1 = i \/ (withProject /\ e2 = e1 + 1)
    THEN NoMatch
    ELSE IF c = "#" /\ CharAt(s, e2 + 1) \in Digit \ {"0"}
      THEN base @@ [end |-> noEnd, no |-> Slice(s, e2 + 1, noEnd),
                    hash |-> <<>>]
      ELSE IF c = "@" /\ hashEnd - (e2 + 1) >= minShaLength
        THEN base @@ [end |-> hashEnd, no |-> <<>>,
                      hash |-> Slice(s, e2 + 1, hashEnd)]
        ELSE NoMatch

\* mentionRegex anchored at position i.
MentionAt(s, i) ==
  LET e1 == UserEnd(s, i + 1)
      e2 == IF CharAt(s, e1) = "/" /\ UserEnd(s, e1 + 1) > e1 + 1
              THEN UserEnd(s, e1 + 1)
              ELSE e1
  IN
  IF CharAt(s, i) = "@" /\ e1 > i + 1
    THEN [ok |-> TRUE, index |-> i, end |-> e2,
          username |-> Slice(s, i + 1, e2)]
    ELSE NoMatch

\* RegExp.prototype.exec of a global pattern: the leftmost match at or
\* after lastIndex.
RECURSIVE Exec(_, _, _)
Exec(find, s, lastIndex) ==
  IF lastIndex > Len(s)
    THEN NoMatch
    ELSE LET m == IF find = "reference"
                    THEN ReferenceAt(s, lastIndex)
                    ELSE MentionAt(s, lastIndex)
         IN IF m.ok THEN m ELSE Exec(find, s, lastIndex + 1)

LinkPrefixes ==
  {<<"h", "t", "t", "p", ":", "/", "/", "g", "i", "t", "h", "u", "b",
     ".", "c", "o", "m", "/">>,
   <<"h", "t", "t", "p", "s", ":", "/", "/", "g", "i", "t", "h", "u", "b",
     ".", "c", "o", "m", "/">>}

LinkPages ==
  {<<"c", "o", "m", "m", "i", "t">>, <<"c", "o", "m", "p", "a", "r", "e">>,
   <<"i", "s", "s", "u", "e", "s">>, <<"p", "u", "l", "l">>}

\* [a-f\d]+(?:\.{3}[a-f\d]+)? at position i, taken greedily: the end of
\* the match, i when there is none.
HashesEnd(url, i) ==
  LET h1 == RunEnd(url, i, HexI, Len(url))
      h2 == RunEnd(url, h1 + 3, HexI, Len(url))
  IN IF h1 > i /\ HasAtI(url, h1, <<".", ".", ".">>) /\ h2 > h1 + 3
       THEN h2
       ELSE h1

\* (?=[#?]|$) at position k.
Ahead(url, k) == CharAt(url, k) \in {"#", "?", ""}

\* \/?(?=[#?]|$) at position r1: with the slash first, then without it.
\* The end of the slash when it is taken, r1 otherwise.
SlashEnd(url, r1) ==
  IF CharAt(url, r1) = "/" /\ Ahead(url, r1 + 1) THEN r1 + 1 ELSE r1

\* linkRegex.exec(url): the pattern is anchored at the start.  match[1..4]
\* are user, project, page and reference as they stand in the url; end is
\* match[0].length.
LinkExec(url) ==
  LET pre == {p \in LinkPrefixes : HasAtI(url, 0, p)}
      u0 == Len(CHOOSE p \in pre : TRUE)
      u1 == UserEnd(url, u0)
      p1 == ProjectEnd(url, u1 + 1)
      pageEnds == {p1 + 1 + Len(p) : p \in {q \in LinkPages :
                                              HasAtI(url, p1 + 1, q)}}
      g0 == CHOOSE g \in pageEnds : TRUE
      r1 == HashesEnd(url, g0 + 1)
      end == SlashEnd(url, r1)
  IN
  IF /\ pre # {}
     /\ u1 > u0 /\ CharAt(url, u1) = "/"
     /\ p1 > u1 + 1 /\ CharAt(url, p1) = "/"
     /\ pageEnds # {} /\ CharAt(url, g0) = "/"
     /\ r1 > g0 + 1
     /\ Ahead(url, end)
    THEN [ok |-> TRUE,
          user |-> Slice(url, u0, u1),
          project |-> Slice(url, u1 + 1, p1),
          page |-> Slice(url, p1 + 1, g0),
          reference |-> Slice(url, g0 + 1, end),
          end |-> end]
    ELSE NoMatch

----------------------------------------------------------------------------
(* mdast nodes.  Every node is a record of the same fields; a field a node *)
(* kind does not have is empty.  title is "null" or a title.  off is a     *)
(* ghost field: the position of a text node's value within the text node   *)
(* of the scanned tree it was cut from. The code never reads it.           *)

Node(type, value, url, title, children, off) ==
  [type |-> type, value |-> value, url |-> url, title |-> title,
   children |-> children, off |-> off]

Text(value) == Node("text", value, <<>>, "null", <<>>, 0)

TextAt(value, off) == Node("text", value, <<>>, "null", <<>>, off)

InlineCode(value) == Node("inlineCode", value, <<>>, "null", <<>>, 0)

Strong(children) == Node("strong", <<>>, <<>>, "null", children, 0)

Link(url, title, children) == Node("link", <<>>, url, title, children, 0)

LinkReference(children) ==
  Node("linkReference", <<>>, <<>>, "null", children, 0)

Root(children) == Node("root", <<>>, <<>>, "null", children, 0)

----------------------------------------------------------------------------
(* The URL builder.                                                        *)

GithubBase ==
  <<"h", "t", "t", "p", "s", ":", "/", "/", "g", "i", "t", "h", "u", "b",
    ".", "c", "o", "m">>

\* Array.prototype.join("/")
RECURSIVE Join(_)
Join(parts) ==
  IF Len(parts) = 1
    THEN parts[1]
    ELSE parts[1] \o <<"/">> \o Join(Tail(parts))

\* The values a replace function hands to buildUrl.  A field the value does
\* not have, and the project of a reference without one (undefined), is
\* the empty string, which is what join makes of undefined.
MentionValues(user) ==
  [type |-> "mention", user |-> user, project |-> <<>>, no |-> <<>>,
   hash |-> <<>>]

IssueValues(user, project, no) ==
  [type |-> "issue", user |-> user, project |-> project, no |-> no,
   hash |-> <<>>]

CommitValues(user, project, hash) ==
  [type |-> "commit", user |-> user, project |-> project, no |-> <<>>,
   hash |-> hash]

defaultBuildUrl(values) ==
  IF values.type = "mention"
    THEN Join(<<GithubBase, values.user>>)
    ELSE IF values.type = "commit"
      THEN Join(<<GithubBase, values.user, values.project,
                  <<"c", "o", "m", "m", "i", "t">>, values.hash>>)
      ELSE Join(<<GithubBase, values.user, values.project,
                  <<"i", "s", "s", "u", "e", "s">>, values.no>>)

\* What a buildUrl hook returns: false, or a string.
ReturnsFalse == [isString |-> FALSE, string |-> <<>>]

Returns(string) == [isString |-> TRUE, string |-> string]

\* !url
Falsy(result) == ~result.isString \/ result.string = <<>>

\* The url the hook "fixed" returns for every value: a commit url.
FixedUrl ==
  Join(<<GithubBase, <<"a">>, <<"b">>, <<"c", "o", "m", "m", "i", "t">>,
         <<"a", "b", "c", "d">>>>)

\* The hooks of the model: "noMention" is the one of src/src/App.tsx,
\* "fixed" returns one url for every value, "empty" the empty string.
Hook(hook, values) ==
  CASE hook = "noMention" ->
         IF values.type = "mention"
           THEN ReturnsFalse
           ELSE Returns(defaultBuildUrl(values))
    [] hook = "fixed" -> Returns(FixedUrl)
    [] hook = "empty" -> Returns(<<>>)

\* options.buildUrl is read and called: a TypeError when options is null,
\* or when buildUrl is truthy and no function.
BuildUrlThrows(opts) ==
  \/ opts.kind = "null"
  \/ opts.buildUrl = "notFunction"

\* buildUrl with the hook forgotten (a mutant of buildUrl).
buildUrlWithoutHook(opts, values) == Returns(defaultBuildUrl(values))

buildUrl(opts, values) ==
  IF opts.buildUrl = "absent"
    THEN Returns(defaultBuildUrl(values))
    ELSE Hook(opts.buildUrl, values)

\* options.mentionStrong !== false
MentionStrong(opts) == opts.mentionStrong # "false"

abbr(sha) == Slice(sha, 0, minShaLength)

----------------------------------------------------------------------------
(* The replace functions.  Each returns what the code does with a match:   *)
(* "false" (leave the text), "throw", or "node" with the link; call is the *)
(* sequence of the values buildUrl was called with (none or one).          *)

Rejected == [outcome |-> "false", call |-> <<>>]

Built(opts, values, link) ==
  IF BuildUrlThrows(opts)
    THEN [outcome |-> "throw", call |-> <<values>>]
    ELSE IF Falsy(buildUrl(opts, values))
      THEN [outcome |-> "false", call |-> <<values>>]
      ELSE [outcome |-> "node", call |-> <<values>>, node |-> link]

\* The boundary check of replaceMention.
MentionBoundaryRejects(s, m) ==
  \/ CharAt(s, m.index - 1) \in Word \cup {Backtick}
  \/ CharAt(s, m.end) \in Word \cup {"/", Backtick}

\* replaceMention without the denylist (a mutant of replaceMention).
replaceMentionWithoutDenylist(opts, s, m) ==
  LET value == Slice(s, m.index, m.end)
      values == MentionValues(m.username)
      node == IF MentionStrong(opts)
                THEN Strong(<<Text(value)>>)
                ELSE Text(value)
  IN
  IF MentionBoundaryRejects(s, m)
    THEN Rejected
    ELSE Built(opts, values,
               Link(buildUrl(opts, values).string, "null", <<node>>))

replaceMention(opts, s, m) ==
  LET value == Slice(s, m.index, m.end)
      values == MentionValues(m.username)
      node == IF MentionStrong(opts)
                THEN Strong(<<Text(value)>>)
                ELSE Text(value)
  IN
  IF MentionBoundaryRejects(s, m) \/ m.username \in denyMention
    THEN Rejected
    ELSE Built(opts, values,
               Link(buildUrl(opts, values).string, "null", <<node>>))

\* The boundary check of replaceReference.
ReferenceBoundaryRejects(s, m) ==
  \/ CharAt(s, m.index - 1)
       \notin {"", "\t", "\n", "\r", " ", "(", "@", "[", "{"}
  \/ CharAt(s, m.end) \in Word

replaceReference(opts, s, m) ==
  LET values == IF m.no # <<>>
                  THEN IssueValues(m.user, m.project, m.no)
                  ELSE CommitValues(m.user, m.project, m.hash)
      nodes == IF m.no # <<>>
                 THEN <<Text(<<"#">> \o m.no)>>
                 ELSE <<Text(<<"@">>), InlineCode(abbr(m.hash))>>
  IN
  IF ReferenceBoundaryRejects(s, m)
    THEN Rejected
    ELSE Built(opts, values,
               Link(buildUrl(opts, values).string, "null", nodes))

Replace(find, opts, s, m) ==
  IF find = "reference"
    THEN replaceReference(opts, s, m)
    ELSE replaceMention(opts, s, m)

----------------------------------------------------------------------------
(* findAndReplace of mdast-util-find-and-replace, as remarkGithub calls    *)
(* it: the pairs are applied one after the other, each to every text node  *)
(* of the tree that has no ignored ancestor; match.input is the value of   *)
(* the text node the handler is working on.                                *)

\* ignore without the link nodes (a mutant of ignore).
ignoreLinkReferenceOnly == {"linkReference"}

ignore == {"link", "linkReference"}

\* An entry of calls: the values buildUrl was called with, the position of
\* the match in the text node of the scanned tree (ghost), and whether a
\* link was made of it.
Call(values, pos, linked) ==
  [values |-> values, pos |-> pos, linked |-> linked]

\* The handler's loop over the matches of find in one text node: start is
\* the end of the last replaced span, nodes what has been produced so far.
\* HandlerLoop finds the next match m, HandleMatch calls replace on it and
\* HandleResult acts on what replace returned, r.
RECURSIVE HandlerLoop(_, _, _, _, _, _, _)
RECURSIVE HandleMatch(_, _, _, _, _, _, _)
RECURSIVE HandleResult(_, _, _, _, _, _, _, _)
HandlerLoop(find, opts, node, lastIndex, start, nodes, log) ==
  HandleMatch(find, opts, node, start, nodes, log,
              Exec(find, node.value, lastIndex))

HandleMatch(find, opts, node, start, nodes, log, m) ==
  LET s == node.value
      rest == IF start < Len(s)
                THEN <<TextAt(Slice(s, start, Len(s)), node.off + start)>>
                ELSE <<>>
  IN
  IF ~m.ok
    THEN [nodes |-> IF nodes # <<>> THEN nodes \o rest ELSE <<node>>,
          calls |-> log, raised |-> FALSE]
    ELSE HandleResult(find, opts, node, start, nodes, log, m,
                      Replace(find, opts, s, m))

HandleResult(find, opts, node, start, nodes, log, m, r) ==
  LET s == node.value
      logged == log \o [k \in 1..Len(r.call) |->
                          Call(r.call[k], node.off + m.index,
                               r.outcome = "node")]
      before == IF start # m.index
                  THEN <<TextAt(Slice(s, start, m.index), node.off + start)>>
                  ELSE <<>>
  IN
  IF r.outcome = "throw"
    THEN [nodes |-> <<node>>, calls |-> logged, raised |-> TRUE]
    ELSE IF r.outcome = "false"
      THEN HandlerLoop(find, opts, node, m.end, start, nodes, logged)
      ELSE HandlerLoop(find, opts, node, m.end, m.end,
                       nodes \o before \o <<r.node>>, logged)

Handler(find, opts, node) == HandlerLoop(find, opts, node, 0, 0, <<>>, <<>>)

\* One pair over a subtree (visitParents with the ignore test): the nodes
\* that take the node's place.  A throw leaves the rest as it is.
RECURSIVE VisitText(_, _, _)
RECURSIVE VisitChildren(_, _, _)
VisitText(find, opts, node) ==
  IF node.type = "text"
    THEN Handler(find, opts, node)
    ELSE IF node.type \in ignore \/ node.children = <<>>
      THEN [nodes |-> <<node>>, calls |-> <<>>, raised |-> FALSE]
      ELSE LET r == VisitChildren(find, opts, node.children)
           IN [nodes |-> <<[node EXCEPT !.children = r.nodes]>>,
               calls |-> r.calls, raised |-> r.raised]

VisitChildren(find, opts, children) ==
  IF children = <<>>
    THEN [nodes |-> <<>>, calls |-> <<>>, raised |-> FALSE]
    ELSE LET h == VisitText(find, opts, Head(children))
             t == VisitChildren(find, opts, Tail(children))
         IN IF h.raised
              THEN [nodes |-> h.nodes \o Tail(children), calls |-> h.calls,
                    raised |-> TRUE]
              ELSE [nodes |-> h.nodes \o t.nodes, calls |-> h.calls \o t.calls,
                    raised |-> t.raised]

\* What the two pairs give together: p1 is the outcome of the reference
\* pair, p2 that of the mention pair on the tree p1 left.
BothPairs(p1, p2) ==
  [tree |-> p2.nodes[1], calls |-> p1.calls \o p2.calls, raised |-> p2.raised]

\* The mention pair after the reference pair gave p1: it is not run when
\* the reference pair threw.
SecondPair(opts, p1) ==
  IF p1.raised
    THEN [tree |-> p1.nodes[1], calls |-> p1.calls, raised |-> TRUE]
    ELSE BothPairs(p1, VisitText("mention", opts, p1.nodes[1]))

\* The Text Scanner: the reference pair, then the mention pair.
findAndReplace(opts, root) ==
  SecondPair(opts, VisitText("reference", opts, root))

----------------------------------------------------------------------------
(* The Existing-Link Normalizer.                                           *)

\* /^[a-f\d]{4,40}\.{3}[a-f\d]{4,40}$/ (no "i" flag)
CompareTest(reference) ==
  LET a == RunEnd(reference, 0, Hex, maxShaLength)
      b == RunEnd(reference, a + 3, Hex, maxShaLength)
  IN /\ a >= minLinkShaLength
     /\ Slice(reference, a, a + 3) = <<".", ".", ".">>
     /\ b - (a + 3) >= minLinkShaLength
     /\ b = Len(reference)

\* /[a-f]/i
HasHexLetter(reference) ==
  \E k \in 1..Len(reference) : reference[k] \in HexI \ Digit

\* reference.split("...") of a reference that passed CompareTest.
SplitCompare(reference) ==
  LET a == RunEnd(reference, 0, Hex, maxShaLength)
  IN <<Slice(reference, 0, a), Slice(reference, a + 3, Len(reference))>>

Commit == <<"c", "o", "m", "m", "i", "t">>

Compare == <<"c", "o", "m", "p", "a", "r", "e">>

Issues == <<"i", "s", "s", "u", "e", "s">>

Pull == <<"p", "u", "l", "l">>

\* toString of mdast-util-to-string: the text of the node.
RECURSIVE toString(_)
toString(node) ==
  IF node.type \in {"text", "inlineCode"}
    THEN node.value
    ELSE IF node.children = <<>>
      THEN <<>>
      ELSE toString(Head(node.children))
           \o toString([node EXCEPT !.children = Tail(node.children)])

\* The tests of parse without the comparison of the label with the url (a
\* mutant of parseTestsFail).
parseTestsFailWithoutLabel(node, match) ==
  \/ ~match.ok
  \/ Len(node.children) # 1
  \/ node.children[1].type # "text"
  \/ /\ match.page = Commit
     /\ \/ Len(match.reference) < minLinkShaLength
        \/ Len(match.reference) > maxShaLength
  \/ match.page = Compare /\ ~CompareTest(match.reference)
  \/ match.page \in {Issues, Pull} /\ HasHexLetter(match.reference)
  \/ Len(match.project) >= maxProjectLength

\* The tests of parse on a link node and the match of linkRegex on its
\* url: whether one of them makes parse return nothing.
parseTestsFail(node, match) ==
  \/ ~match.ok
  \/ Len(node.children) # 1
  \/ node.children[1].type # "text"
  \/ toString(node) # node.url
  \/ /\ match.page = Commit
     /\ \/ Len(match.reference) < minLinkShaLength
        \/ Len(match.reference) > maxShaLength
  \/ match.page = Compare /\ ~CompareTest(match.reference)
  \/ match.page \in {Issues, Pull} /\ HasHexLetter(match.reference)
  \/ Len(match.project) >= maxProjectLength

\* Whether parse returns nothing for the link node.
parseRejects(node) == parseTestsFail(node, LinkExec(node.url))

\* What parse makes of the match of linkRegex on the url of a link node it
\* does not reject.
parseResult(node, match) ==
  LET halves == SplitCompare(match.reference)
  IN [user |-> match.user,
      project |-> match.project,
      page |-> match.page,
      reference |-> IF match.page = Compare
                      THEN abbr(halves[1]) \o <<".", ".", ".">>
                             \o abbr(halves[2])
                      ELSE abbr(match.reference),
      comment |-> /\ CharAt(node.url, match.end) = "#"
                  /\ match.end + 1 < Len(node.url)]

\* What parse returns for a link node it does not reject.
parse(node) == parseResult(node, LinkExec(node.url))

CommentText == <<" ", "(", "c", "o", "m", "m", "e", "n", "t", ")">>

\* The children without the text that names the user (a mutant of
\* LinkChildren).
LinkChildrenWithoutUser(link) ==
  LET comment == IF link.comment THEN CommentText ELSE <<>> IN
  IF link.page \in {Issues, Pull}
    THEN <<Text(link.user \o <<"#">> \o link.reference \o comment)>>
    ELSE <<InlineCode(link.reference)>>
         \o (IF link.comment THEN <<Text(comment)>> ELSE <<>>)

\* The children the visitor gives a link that parse accepted.
LinkChildren(link) ==
  LET comment == IF link.comment THEN CommentText ELSE <<>> IN
  IF link.page \in {Issues, Pull}
    THEN <<Text(link.user \o <<"#">> \o link.reference \o comment)>>
    ELSE (IF link.user # <<>>
            THEN <<Text(link.user \o <<"@">>)>>
            ELSE <<>>)
         \o <<InlineCode(link.reference)>>
         \o (IF link.comment THEN <<Text(comment)>> ELSE <<>>)

\* visit(tree, "link", ...): every link node, in document order; the
\* children of a rewritten link hold no link.
RECURSIVE VisitLinks(_)
VisitLinks(node) ==
  IF node.type = "link" /\ ~parseRejects(node)
    THEN [node EXCEPT !.children = LinkChildren(parse(node))]
    ELSE [node EXCEPT
            !.children = [k \in 1..Len(node.children) |->
                            VisitLinks(node.children[k])]]

\* The link visitor after findAndReplace gave r: it is not run when
\* findAndReplace threw.
ThenVisitLinks(r) ==
  IF r.raised THEN r ELSE [r EXCEPT !.tree = VisitLinks(r.tree)]

\* The transformer remarkGithub returns.
Transformer(opts, root) == ThenVisitLinks(findAndReplace(opts, root))

----------------------------------------------------------------------------
(* The inputs.                                                             *)

\* Bounds of the model.
MaxTokens == 2

MaxParts == 3

MaxOps == 2

\* The pieces the texts of the scanned trees are made of.
TextTokens ==
  {<<"@", "a">>,
   <<"@", "m", "e", "n", "t", "i", "o", "n">>,
   <<"s">>,
   <<Backtick>>,
   <<" ">>,
   <<"a", "#", "1">>,
   <<"a", "/", "b", "@", "a", "b", "c", "d", "e", "f", "1", "2">>}

\* The concatenations of at most n pieces.
RECURSIVE Concats(_, _)
Concats(pieces, n) ==
  IF n = 0
    THEN {<<>>}
    ELSE LET shorter == Concats(pieces, n - 1)
         IN shorter \cup {s \o p : s \in shorter, p \in pieces}

Texts == Concats(TextTokens, MaxTokens)

ProfileUrl == Join(<<GithubBase, <<"a">>>>)

IssueUrl == Join(<<GithubBase, <<"a">>, <<"b">>, Issues, <<"1">>>>)

Autolink == Link(IssueUrl, "null", <<Text(IssueUrl)>>)

\* A text node at the top (alone, or before a bare autolink), in a strong,
\* in a custom-labelled link as in src/src/App.tsx, or in a link reference.
TextTrees ==
  {Root(children) :
     children \in UNION {{<<Text(t)>>,
                          <<Text(t), Autolink>>,
                          <<Strong(<<Text(t)>>)>>,
                          <<Link(ProfileUrl, "null", <<Strong(<<Text(t)>>)>>)>>,
                          <<LinkReference(<<Text(t)>>)>>} : t \in Texts \ {<<>>}}}

\* The options object: absent (the default {}), null, or an object with a
\* buildUrl that is absent, a function or no function, and a mentionStrong
\* that is absent, false or no boolean.
Options(kind, hook, strong) ==
  [kind |-> kind, buildUrl |-> hook, mentionStrong |-> strong]

DefaultOptions == Options("undefined", "absent", "absent")

Configurations ==
  {DefaultOptions,
   Options("null", "absent", "absent"),
   Options("object", "absent", "false"),
   Options("object", "absent", "notBoolean"),
   Options("object", "noMention", "absent"),
   Options("object", "fixed", "absent"),
   Options("object", "fixed", "false"),
   Options("object", "empty", "absent"),
   Options("object", "notFunction", "absent")}

\* The pieces the reference part of a link url is made of.
Digits37 == [k \in 1..37 |-> "1"]

ReferenceTokens ==
  {<<"a", "b", "c">>, <<"a", "b", "c", "d">>, Digits37, <<".", ".", ".">>,
   <<"/">>}

References == Concats(ReferenceTokens, MaxParts) \ {<<>>}

PageNames ==
  {Commit, Compare, Issues, Pull, <<"C", "O", "M", "M", "I", "T">>,
   <<"t", "r", "e", "e">>}

Project99 == [k \in 1..99 |-> "p"]

Project100 == [k \in 1..100 |-> "p"]

LinkUrl(project, page, reference) ==
  Join(<<GithubBase, <<"a">>, project, page, reference>>)

\* The urls of the links: every page with every reference and with or
\* without a comment anchor; an empty anchor, and long or ".git" projects.
LinkUrls ==
  {LinkUrl(<<"b">>, page, reference) \o fragment :
     page \in PageNames, reference \in References,
     fragment \in {<<>>, <<"#", "c">>}}
  \cup {LinkUrl(<<"b">>, page, <<"a", "b", "c", "d">>) \o <<"#">> :
          page \in PageNames}
  \cup {LinkUrl(project, Commit, <<"a", "b", "c", "d">>) :
          project \in {Project99, Project100, <<"b", ".", "g", "i", "t">>}}

\* A bare autolink of every url, and a link with a label and a title of
\* its own of the urls without an anchor.
LinkTrees ==
  {Root(<<Link(url, "null", <<Text(url)>>)>>) : url \in LinkUrls}
  \cup {Root(<<Link(LinkUrl(<<"b">>, page, reference), "t",
                    <<Text(<<"x">>)>>)>>) :
          page \in PageNames, reference \in References}

----------------------------------------------------------------------------
(* The state machine: a tree and a configuration are chosen, and the       *)
(* transformer, or one of its two passes alone, is run on the tree, at     *)
(* most MaxOps times.  prev is the tree before the last run, calls the     *)
(* buildUrl calls of the last run.                                         *)

Start(trees, configurations) ==
  /\ input \in trees
  /\ options \in configurations
  /\ tree = input
  /\ prev = input
  /\ ops = <<>>
  /\ calls = <<>>
  /\ raised = FALSE

Init == Start(TextTrees, Configurations)

InitLink == Start(LinkTrees, {DefaultOptions})

Ran(op, result) ==
  /\ tree' = result.tree
  /\ prev' = tree
  /\ ops' = Append(ops, op)
  /\ calls' = result.calls
  /\ raised' = result.raised
  /\ UNCHANGED <<input, options>>

CanRun == ~raised /\ Len(ops) < MaxOps

Scan ==
  /\ CanRun
  /\ Ran("scan", findAndReplace(options, tree))

Normalize ==
  /\ CanRun
  /\ Ran("normalize",
         [tree |-> VisitLinks(tree), calls |-> <<>>, raised |-> FALSE])

Transform ==
  /\ CanRun
  /\ Ran("transform", Transformer(options, tree))

Next == Scan \/ Normalize \/ Transform

Spec == Init /\ [][Next]_vars

SpecLink == InitLink /\ [][Next]_vars

----------------------------------------------------------------------------
(* What the properties are stated with.                                    *)

Last(s) == s[Len(s)]

LinkTypes == {"link", "linkReference"}

\* The link and linkReference nodes among nodes and below them, in
\* document order; with nested, also those inside a link.
RECURSIVE LinksIn(_, _)
LinksIn(nodes, nested) ==
  IF nodes = <<>>
    THEN <<>>
    ELSE LET n == Head(nodes) IN
         (IF n.type \in LinkTypes
            THEN <<n>> \o (IF nested THEN LinksIn(n.children, nested)
                                     ELSE <<>>)
            ELSE LinksIn(n.children, nested))
         \o LinksIn(Tail(nodes), nested)

AllLinks(root) == LinksIn(<<root>>, TRUE)

TopLinks(root) == LinksIn(<<root>>, FALSE)

RECURSIVE IsSubsequence(_, _)
IsSubsequence(a, b) ==
  IF a = <<>>
    THEN TRUE
    ELSE IF b = <<>>
      THEN FALSE
      ELSE IF Head(a) = Head(b)
        THEN IsSubsequence(Tail(a), Tail(b))
        ELSE IsSubsequence(a, Tail(b))

\* after without the elements of before, which are looked for in order.
RECURSIVE Added(_, _)
Added(after, before) ==
  IF after = <<>>
    THEN <<>>
    ELSE IF before # <<>> /\ Head(after) = Head(before)
      THEN Added(Tail(after), Tail(before))
      ELSE <<Head(after)>> \o Added(Tail(after), before)

\* The links of the tree that the last run made.
MadeLinks == Added(AllLinks(tree), AllLinks(prev))

\* Whether a call of the log is of the kind that is asked for.
IsCall(call, kind) ==
  CASE kind = "linked" -> call.linked
    [] kind = "linkedCommit" -> call.linked /\ call.values.type = "commit"
    [] kind = "returnedString" ->
         Hook(options.buildUrl, call.values).isString
    [] kind = "returnedUrl" -> ~Falsy(Hook(options.buildUrl, call.values))

RECURSIVE CallsOf(_, _)
CallsOf(log, kind) ==
  IF log = <<>>
    THEN <<>>
    ELSE (IF IsCall(Head(log), kind) THEN <<Head(log)>> ELSE <<>>)
         \o CallsOf(Tail(log), kind)

\* The links among links that have two children.
RECURSIVE WithTwoChildren(_)
WithTwoChildren(links) ==
  IF links = <<>>
    THEN <<>>
    ELSE (IF Len(Head(links).children) = 2 THEN <<Head(links)>> ELSE <<>>)
         \o WithTwoChildren(Tail(links))

\* The value of the first text node among nodes and below them.
RECURSIVE FirstText(_)
FirstText(nodes) ==
  IF nodes = <<>>
    THEN <<>>
    ELSE IF Head(nodes).type = "text"
      THEN Head(nodes).value
      ELSE IF FirstText(Head(nodes).children) # <<>>
        THEN FirstText(Head(nodes).children)
        ELSE FirstText(Tail(nodes))

\* The text of the input tree that the Text Scanner works on.
ScannedText == FirstText(<<input>>)

Prefix(s, n) == SubSeq(s, 1, IF Len(s) < n THEN Len(s) ELSE n)

\* The last run was the Text Scanner on the input tree.
ScannedInput == ops = <<"scan">>

\* The link has exactly one child, a text equal to its url.
BareAutolink(link) ==
  /\ Len(link.children) = 1
  /\ link.children[1].type = "text"
  /\ link.children[1].value = link.url

\* The last run was the Normalizer alone, which gave child k of the root,
\* a link, other children.
Rewrote(k) ==
  /\ ops # <<>> /\ Last(ops) = "normalize"
  /\ tree.children[k].type = "link"
  /\ tree.children[k].children # prev.children[k].children

----------------------------------------------------------------------------
(* The claims.                                                             *)

\* C1: scanning a tree the Text Scanner has produced changes nothing:
\* scan(scan(t)) = scan(t).
ScannerIdempotent == ops = <<"scan", "scan">> => tree = prev

\* C2: a second run of the Normalizer changes nothing, because a link it
\* rewrote is no bare autolink any more: an issue or pull link has one text
\* child that differs from the url, any other link at least two children.
NormalizerIdempotent ==
  /\ ops = <<"normalize", "normalize">> => tree = prev
  /\ \A k \in 1..Len(tree.children) :
       Rewrote(k) =>
         LET link == tree.children[k] IN
         /\ ~BareAutolink(link)
         /\ IF LinkExec(link.url).page \in {Issues, Pull}
              THEN /\ Len(link.children) = 1
                   /\ link.children[1].type = "text"
                   /\ link.children[1].value # link.url
              ELSE Len(link.children) >= 2

\* C2, witness: the Normalizer ran twice, and its first run rewrote a link.
NormalizedTwice == ops = <<"normalize", "normalize">> /\ prev # input

\* C3: no mention link is made of an "@user" that a word character or a
\* backtick precedes in the text of the input tree, also when a reference
\* link was made of the characters before it.
MentionBoundaryLaw ==
  (Len(ops) = 1 /\ ops[1] \in {"scan", "transform"}) =>
    \A k \in 1..Len(calls) :
      (calls[k].values.type = "mention" /\ calls[k].linked) =>
        CharAt(ScannedText, calls[k].pos - 1) \notin Word \cup {Backtick}

\* C4: whatever the buildUrl hook, the URL builder is never called with a
\* mention of "mention" or "mentions", and no link is made of one.
DenylistLaw ==
  /\ \A k \in 1..Len(calls) :
       calls[k].values.type = "mention" =>
         calls[k].values.user \notin denyMention
  /\ \A k \in 1..Len(MadeLinks) :
       \A user \in denyMention : toString(MadeLinks[k]) # <<"@">> \o user

\* C4, witness: the Text Scanner ran with a hook that returns a url for
\* every value on a text that holds a denylisted mention between
\* characters that the boundary check lets pass.
DeniedMentionScanned ==
  /\ ScannedInput
  /\ options.buildUrl = "fixed"
  /\ input.children[1].type = "text"
  /\ \E i \in 0..Len(ScannedText) :
       LET m == MentionAt(ScannedText, i) IN
       /\ m.ok
       /\ m.username \in denyMention
       /\ ~MentionBoundaryRejects(ScannedText, m)

\* The display the claim C5 asks of the inline code of a link url: the
\* hash of a commit url cut to 7 characters, the two hashes of a compare
\* url each cut to 7 characters and joined by "...".  The hash is what
\* stands before a trailing "/".
HashDisplay(url) ==
  LET reference == LinkExec(url).reference
      body == IF reference # <<>> /\ Last(reference) = "/"
                THEN SubSeq(reference, 1, Len(reference) - 1)
                ELSE reference
      a == RunEnd(body, 0, HexI, Len(body))
  IN IF a = Len(body)
       THEN Prefix(body, 7)
       ELSE Prefix(SubSeq(body, 1, a), 7) \o <<".", ".", ".">>
              \o Prefix(SubSeq(body, a + 4, Len(body)), 7)

\* C5: an inline code node that the Text Scanner or the Normalizer produces
\* shows of each hash its first min(7, length) characters and nothing else,
\* also for a url whose reference ends with "/".
AbbreviationLaw ==
  /\ ScannedInput =>
       LET codes == WithTwoChildren(MadeLinks)
           commits == CallsOf(calls, "linkedCommit")
       IN /\ Len(codes) = Len(commits)
          /\ \A k \in 1..Len(codes) :
               codes[k].children[2].value = Prefix(commits[k].values.hash, 7)
  /\ \A k \in 1..Len(tree.children) :
       (/\ Rewrote(k)
        /\ LinkExec(tree.children[k].url).page \in {Commit, Compare}) =>
         \A c \in 1..Len(tree.children[k].children) :
           tree.children[k].children[c].type = "inlineCode" =>
             tree.children[k].children[c].value
               = HashDisplay(tree.children[k].url)

\* A buildUrl hook is configured.
HasHook == options.buildUrl \in {"noMention", "fixed", "empty"}

\* The urls of the links the last run made are, in order, what the hook
\* returned for the calls of the kind, and a link was made of exactly
\* those calls.
HookDecidesBy(kind) ==
  LET made == MadeLinks
      decided == CallsOf(calls, kind)
  IN /\ \A k \in 1..Len(calls) : calls[k].linked <=> IsCall(calls[k], kind)
     /\ Len(made) = Len(decided)
     /\ \A k \in 1..Len(made) :
          made[k].url = Hook(options.buildUrl, decided[k].values).string

\* C6 as stated: with a buildUrl hook, a link with url s is made of a match
\* when the hook returns any string s, and none when it returns false.
HookDecides == (ScannedInput /\ HasHook) => HookDecidesBy("returnedString")

\* C6 as amended: with a buildUrl hook, a link with url s is made of a
\* match when the hook returns a string s that is not empty, and none, the
\* text staying as it is, when it returns false or the empty string; the
\* hook of src/src/App.tsx gives the tree that the reference pattern alone
\* gives without a hook.
HookDecidesNonEmpty ==
  (ScannedInput /\ HasHook) =>
    /\ HookDecidesBy("returnedUrl")
    /\ (\A k \in 1..Len(calls) : ~calls[k].linked) => tree = input
    /\ options.buildUrl = "noMention" =>
         tree = VisitText("reference", DefaultOptions, input).nodes[1]

\* C6, witness: the Text Scanner ran with the hook of src/src/App.tsx, which
\* was called for a mention and for a reference, of which a link was made.
HookSuppressedMention ==
  /\ ScannedInput
  /\ options.buildUrl = "noMention"
  /\ \E k \in 1..Len(calls) :
       calls[k].values.type = "mention" /\ ~calls[k].linked
  /\ \E k \in 1..Len(calls) :
       calls[k].values.type # "mention" /\ calls[k].linked

AllIn(s, cls) == \A k \in 1..Len(s) : s[k] \in cls

\* What claim C7 asks of the url of a link that the Normalizer rewrites.
Acceptable(url) ==
  LET match == LinkExec(url)
      page == [k \in 1..Len(match.page) |-> ToLower(match.page[k])]
      reference == match.reference
      a == RunEnd(reference, 0, HexI, Len(reference))
      second == SubSeq(reference, a + 4, Len(reference))
  IN /\ match.ok
     /\ Len(match.project) < 100
     /\ page = Commit =>
          AllIn(reference, HexI) /\ Len(reference) \in 4..40
     /\ page = Compare =>
          /\ a \in 4..40
          /\ SubSeq(reference, a + 1, a + 3) = <<".", ".", ".">>
          /\ AllIn(second, HexI) /\ Len(second) \in 4..40
     /\ page \in {Issues, Pull} => AllIn(reference, Digit)

\* C7: the Normalizer gives a link other children only if the link is a
\* bare autolink whose url matches the literal-link pattern with a commit
\* hash of 4 to 40 characters, two such hashes joined by "...", or an issue
\* number of decimal digits only, and a project name under 100
\* characters; it changes no url and no title.
NormalizerAcceptance ==
  (ops # <<>> /\ Last(ops) = "normalize") =>
    \A k \in 1..Len(tree.children) :
      /\ tree.children[k].url = prev.children[k].url
      /\ tree.children[k].title = prev.children[k].title
      /\ Rewrote(k) =>
           /\ BareAutolink(prev.children[k])
           /\ Acceptable(prev.children[k].url)

\* C8: the Text Scanner followed by the Normalizer gives the tree that the
\* Normalizer followed by the Text Scanner gives, and the Normalizer
\* rewrites no link that the Text Scanner made.
PassOrderIndependent ==
  /\ ops = <<"scan", "normalize">> =>
       /\ tree = findAndReplace(options, VisitLinks(input)).tree
       /\ Added(AllLinks(tree), AllLinks(VisitLinks(input)))
            = Added(AllLinks(prev), AllLinks(input))
  /\ ops = <<"normalize", "scan">> =>
       tree = VisitLinks(findAndReplace(options, input).tree)

\* C8, witness: the Text Scanner made a link with the url a hook returned
\* and without a strong, and then the Normalizer rewrote a link.
ScannedThenNormalized ==
  /\ ops = <<"scan", "normalize">>
  /\ options = Options("object", "fixed", "false")
  /\ Added(AllLinks(prev), AllLinks(input)) # <<>>
  /\ tree # prev

\* C9: the transformer raises no error, whatever the tree and the
\* configuration, and a malformed configuration value acts as the default.
NoRaisedErrors ==
  /\ ~raised
  /\ ops = <<"transform">> =>
       LET wellFormed ==
             [options EXCEPT
                !.buildUrl = IF @ = "notFunction" THEN "absent" ELSE @,
                !.mentionStrong = IF @ = "notBoolean" THEN "absent" ELSE @]
       IN tree = Transformer(wellFormed, input).tree

\* C10: the Text Scanner leaves every subtree rooted at a link or a
\* linkReference as it was, and every link it makes stands outside every
\* link: the mention pattern makes no link inside a link that was there or
\* that the reference pattern made.
LinkSubtreesKept ==
  (ops # <<>> /\ Last(ops) = "scan") =>
    LET linked == CallsOf(calls, "linked") IN
    /\ IsSubsequence(TopLinks(prev), TopLinks(tree))
    /\ Len(TopLinks(tree)) = Len(TopLinks(prev)) + Len(linked)
    /\ Len(AllLinks(tree)) = Len(AllLinks(prev)) + Len(linked)

\* C10, witness: the Text Scanner ran on the link of src/src/App.tsx, whose
\* label is a bold "@a".
LabelledLinkScanned ==
  /\ ScannedInput
  /\ input = Root(<<Link(ProfileUrl, "null",
                         <<Strong(<<Text(<<"@", "a">>)>>)>>)>>)
====
